---- MODULE Spec2Model ----
(***************************************************************************)
(* Gossip orchestration of an active authority and its per-peer sessions,  *)
(* modelled from sui_core/src/authority_active/gossip/mod.rs.              *)
(*                                                                         *)
(* gossip_process is one sequential process (variable pc); every peer      *)
(* session is a task of its own (session[p].st).  Every .await of the      *)
(* source is a point where the other processes may take steps, so each     *)
(* action below runs from one suspension point to the next.                *)
(***************************************************************************)
EXTENDS Integers, Sequences, FiniteSets, TLC

\* ------------------------------------------------------------------ bounds
MaxN == 3         \* largest committee drawn by Spec
MaxAuth == 4      \* number of authority names
MaxWeight == 2    \* largest voting right of one authority
MaxDegree == 2    \* largest degree handed to gossip_process
SeqBits == 2      \* width of TxSequenceNumber (u64 in the source)
NDigests == 2     \* number of distinct transaction digests
MaxRetries == 1   \* cap of the retry count kept per authority
MaxItems == 1     \* transaction items the peers stream in one run of Spec
MaxSessionItems == 3  \* the same, in one run of SessionSpec
MaxRaceItems == 2     \* the same, in one run of RaceSpec

\* ------------------------------------------------------- program constants
REQUEST_FOLLOW_NUM_DIGESTS == 100000
REFRESH_FOLLOWER_PERIOD_SECS == 60

Auth == 1..MaxAuth
Digests == 1..NDigests
SeqMax == 2^SeqBits - 1
Seqs == 0..SeqMax
None == <<>>
Some(x) == <<x>>

Min(a, b) == IF a <= b THEN a ELSE b
Max(a, b) == IF a >= b THEN a ELSE b

VARIABLES
    voting_rights,   \* committee.voting_rights: authority -> stake
    degree,          \* parameter of gossip_process
    pc,              \* position of gossip_process
    k,               \* sessions launched in this pass of the outer loop
    peer_names,      \* HashSet of the names of the active peers
    gossip_tasks,    \* FuturesUnordered: the names of the futures it holds
    tries_remaining, \* local of select_gossip_peer
    name_result,     \* result of the last select_gossip_peer call
    session,         \* per peer: the PeerGossip task launched against it
    health,          \* per authority: retries and remaining no-contact time
    db,              \* digests whose transaction exists in the local store
    items_left       \* transaction items the peers may still stream

vars == <<voting_rights, degree, pc, k, peer_names, gossip_tasks,
          tries_remaining, name_result, session, health, db, items_left>>

orch_vars == <<pc, k, peer_names, gossip_tasks, tries_remaining, name_result>>
conf_vars == <<voting_rights, degree>>

\* ---------------------------------------------------------------- committee
my_name == 1
Members == DOMAIN voting_rights
N == Cardinality(Members)

weight(name) == IF name \in Members THEN voting_rights[name] ELSE 0

RECURSIVE SumWeights(_)
SumWeights(S) ==
    IF S = {} THEN 0
    ELSE LET a == CHOOSE x \in S : TRUE IN weight(a) + SumWeights(S \ {a})

total_votes == SumWeights(Members)
quorum_threshold == (2 * total_votes) \div 3 + 1

\* committee.sample(): a draw with probability proportional to the stake
Sampleable == {a \in Members : weight(a) > 0}

\* ------------------------------------------------------------- availability
HealthDefault == [retries |-> 0, no_contact |-> 0]

can_contact(name) == health[name].no_contact = 0

RetryDelay(retries) == 2 ^ (retries - 1)

set_failure_backoff(h) ==
    LET r == Min(h.retries + 1, MaxRetries)
    IN  [retries |-> r, no_contact |-> Max(h.no_contact, RetryDelay(r))]

set_success_backoff(h) == [retries |-> 0, no_contact |-> 0]

ContactableStake == SumWeights({a \in Members : can_contact(a)})

\* minimum_wait_for_majority_honest_available followed by sleep_until: the
\* wait is over once a quorum of stake is past its no-contact instant
GateOpen == ContactableStake >= quorum_threshold

\* ------------------------------------------------------------------ results
Ok == <<"Ok">>
NetworkError == <<"NetworkError">>
StorageError == <<"StorageError">>
SyncError == <<"SyncError">>
JoinErrorAsOk == Ok
JoinError == <<"GenericAuthorityError", "Gossip Join Error">>
SelectError == <<"GenericAuthorityError", "Could not connect to any peer">>
ByzantineAuthoritySuspicion(authority) ==
    <<"ByzantineAuthoritySuspicion", authority>>

\* ----------------------------------------------------------------- sessions
NoSession ==
    [st |-> "none", peer_name |-> 0, duration |-> 0, max_seq |-> None,
     req |-> None, expired |-> FALSE, item |-> None, response |-> "unset",
     sync |-> None, processed |-> None, result |-> None]

PeerGossipNewFromZero(name, duration) ==
    [NoSession EXCEPT !.st = "pushed", !.peer_name = name,
                      !.duration = duration, !.max_seq = Some(0)]

\* PeerGossip::new, held by the future pushed on gossip_tasks
PeerGossipNew(name, duration) ==
    [NoSession EXCEPT !.st = "pushed", !.peer_name = name,
                      !.duration = duration]

Running(p) == session[p].st \in {"open", "select", "txinfo", "sync"}

BatchInfoRequestFromStart(s) == <<None, REQUEST_FOLLOW_NUM_DIGESTS>>

\* lines 202-205 and 242-245: the request is built from the cursor
BatchInfoRequest(s) == <<s.max_seq, REQUEST_FOLLOW_NUM_DIGESTS>>

TargetCountingSelf == Min(N, degree)

\* lines 55-58: usize::min(voting_rights.len() - 1, degree)
target_num_tasks == Min(N - 1, degree)

\* --------------------------------------------------------------------- Init
Committees ==
    UNION {[1..n -> 0..MaxWeight] : n \in 1..MaxN}

Init ==
    /\ voting_rights \in {c \in Committees :
                            \E a \in DOMAIN c : c[a] > 0}
    /\ degree \in 0..MaxDegree
    /\ pc = "start"
    /\ k = 0
    /\ peer_names = {}
    /\ gossip_tasks = <<>>
    /\ tries_remaining = 0
    /\ name_result = None
    /\ session = [p \in Auth |-> NoSession]
    /\ health = [p \in Auth |-> HealthDefault]
    /\ db = {}
    /\ items_left = MaxItems

\* ----------------------------------------------------------- gossip_process
sess_vars == <<session, db, items_left>>

\* lines 55-65: the target number of tasks, and the early return
Start ==
    /\ pc = "start"
    /\ pc' = IF target_num_tasks = 0 THEN "returned" ELSE "while"
    /\ k' = 0
    /\ UNCHANGED <<peer_names, gossip_tasks, tries_remaining, name_result,
                   health>>
    /\ UNCHANGED sess_vars /\ UNCHANGED conf_vars

\* line 73: the test of the fill loop
FillTest ==
    /\ pc = "while"
    /\ pc' = IF Len(gossip_tasks) < target_num_tasks THEN "gate"
             ELSE "after_fill"
    /\ UNCHANGED <<k, peer_names, gossip_tasks, tries_remaining, name_result,
                   health>>
    /\ UNCHANGED sess_vars /\ UNCHANGED conf_vars

TriesOffByOne == N + 1

\* line 147: the number of draws select_gossip_peer allows itself
InitialTries == N

GateWithoutWait ==
    /\ pc = "gate"
    /\ pc' = "select"
    /\ tries_remaining' = InitialTries
    /\ UNCHANGED <<k, peer_names, gossip_tasks, name_result, health>>
    /\ UNCHANGED sess_vars /\ UNCHANGED conf_vars

\* lines 76-83 and the entry of select_gossip_peer
Gate ==
    /\ pc = "gate"
    /\ GateOpen
    /\ pc' = "select"
    /\ tries_remaining' = InitialTries
    /\ UNCHANGED <<k, peer_names, gossip_tasks, name_result, health>>
    /\ UNCHANGED sess_vars /\ UNCHANGED conf_vars

RejectedIgnoringActive(name) ==
    \/ name = my_name
    \/ ~can_contact(name)

\* lines 150-152: the draws select_gossip_peer does not accept
Rejected(name) ==
    \/ name \in peer_names
    \/ name = my_name
    \/ ~can_contact(name)

SelectDrawWithoutSleep(name) ==
    /\ pc = "select"
    /\ name \in Sampleable
    /\ IF Rejected(name)
       THEN /\ tries_remaining' = tries_remaining - 1
            /\ IF tries_remaining' = 0
               THEN pc' = "select_ret" /\ name_result' = SelectError
               ELSE pc' = "select" /\ UNCHANGED name_result
       ELSE /\ pc' = "select_ret"
            /\ name_result' = <<"Ok", name>>
            /\ UNCHANGED tries_remaining
    /\ UNCHANGED <<k, peer_names, gossip_tasks, health>>
    /\ UNCHANGED sess_vars /\ UNCHANGED conf_vars

\* lines 148-164: one turn of the loop of select_gossip_peer, up to its
\* return or to the sleep of line 160
SelectDraw(name) ==
    /\ pc = "select"
    /\ name \in Sampleable
    /\ IF Rejected(name)
       THEN /\ tries_remaining' = tries_remaining - 1
            /\ IF tries_remaining' = 0
               THEN pc' = "select_ret" /\ name_result' = SelectError
               ELSE pc' = "select_sleep" /\ UNCHANGED name_result
       ELSE /\ pc' = "select_ret"
            /\ name_result' = <<"Ok", name>>
            /\ UNCHANGED tries_remaining
    /\ UNCHANGED <<k, peer_names, gossip_tasks, health>>
    /\ UNCHANGED sess_vars /\ UNCHANGED conf_vars

SelectFailedBreak ==
    /\ pc = "select_ret"
    /\ name_result = SelectError
    /\ pc' = "after_fill"
    /\ tries_remaining' = 0
    /\ name_result' = None
    /\ UNCHANGED <<k, peer_names, gossip_tasks, health>>
    /\ UNCHANGED sess_vars /\ UNCHANGED conf_vars

SelectFailedReturns ==
    /\ pc = "select_ret"
    /\ name_result = SelectError
    /\ pc' = "returned"
    /\ tries_remaining' = 0
    /\ name_result' = None
    /\ UNCHANGED <<k, peer_names, gossip_tasks, health>>
    /\ UNCHANGED sess_vars /\ UNCHANGED conf_vars

SelectFailedCountingK ==
    /\ pc = "select_ret"
    /\ name_result = SelectError
    /\ pc' = "while"
    /\ k' = k + 1
    /\ tries_remaining' = 0
    /\ name_result' = None
    /\ UNCHANGED <<peer_names, gossip_tasks, health>>
    /\ UNCHANGED sess_vars /\ UNCHANGED conf_vars

\* lines 91-93: name_result.is_err(): continue the fill loop
SelectFailed ==
    /\ pc = "select_ret"
    /\ name_result = SelectError
    /\ pc' = "while"
    /\ tries_remaining' = 0
    /\ name_result' = None
    /\ UNCHANGED <<k, peer_names, gossip_tasks, health>>
    /\ UNCHANGED sess_vars /\ UNCHANGED conf_vars

TotalStakeWithoutSelf(names) == SumWeights(names)

\* lines 109-113: the stake of the active peers and of this authority
total_stake_used(names) == SumWeights(names) + weight(my_name)

NeverUsedAllStake(names) == FALSE

\* line 114: the test that ends the fill loop early
UsedAllGoodStake(names) == total_stake_used(names) >= quorum_threshold

SessionDurationFlat(kk) == REFRESH_FOLLOWER_PERIOD_SECS

\* line 102: the duration of the k-th session of a pass
SessionDuration(kk) == REFRESH_FOLLOWER_PERIOD_SECS + kk * 15

LaunchSpawning ==
    /\ pc = "select_ret"
    /\ name_result # SelectError
    /\ LET name == name_result[2] IN
        /\ peer_names' = peer_names \cup {name}
        /\ gossip_tasks' = Append(gossip_tasks, name)
        /\ session' = [session EXCEPT
                         ![name] =
                             [PeerGossipNew(name, SessionDuration(k)) EXCEPT
                                 !.st = "open",
                                 !.req = <<None, REQUEST_FOLLOW_NUM_DIGESTS>>]]
        /\ k' = k + 1
        /\ pc' = IF UsedAllGoodStake(peer_names') THEN "after_fill"
                 ELSE "while"
    /\ tries_remaining' = 0
    /\ name_result' = None
    /\ UNCHANGED <<health, db, items_left>>
    /\ UNCHANGED conf_vars

\* lines 94-116: insert the name, push the future, count it, test the stake
Launch ==
    /\ pc = "select_ret"
    /\ name_result # SelectError
    /\ LET name == name_result[2] IN
        /\ peer_names' = peer_names \cup {name}
        /\ gossip_tasks' = Append(gossip_tasks, name)
        /\ session' = [session EXCEPT
                         ![name] = PeerGossipNew(name, SessionDuration(k))]
        /\ k' = k + 1
        /\ pc' = IF UsedAllGoodStake(peer_names') THEN "after_fill"
                 ELSE "while"
    /\ tries_remaining' = 0
    /\ name_result' = None
    /\ UNCHANGED <<health, db, items_left>>
    /\ UNCHANGED conf_vars

\* the futures of the pool that have not been polled yet, and the ones
\* whose task has ended
Unstarted == {p \in Auth : session[p].st = "pushed"}
Finished == {p \in Auth : session[p].st = "done"}

\* line 125, poll_next of FuturesUnordered: it polls the futures of its ready
\* queue one after the other and returns at the first one that is ready.
\* With no finished task it gets to every future pushed since the last
\* poll; with a finished task in the queue it returns that one, and the
\* futures queued behind it stay unpolled
PolledBeforeReturn ==
    IF Finished = {} THEN {Unstarted} ELSE SUBSET Unstarted

\* lines 119-125: nothing to wait for, or the poll of the task pool. A
\* future of lines 97-104 does nothing before it is polled; polled, it
\* builds its PeerGossip and calls spawn (tokio::task::spawn, lines
\* 185-187), and the started task sets its timer, builds its request and
\* calls handle_batch_stream (lines 200-207)
AfterFill ==
    /\ pc = "after_fill"
    /\ IF gossip_tasks = <<>>
       THEN /\ pc' = "while"
            /\ k' = 0
            /\ UNCHANGED session
       ELSE /\ pc' = "drain"
            /\ UNCHANGED k
            /\ \E polled \in PolledBeforeReturn :
                  session' = [p \in Auth |->
                                IF p \in polled
                                THEN [session[p] EXCEPT
                                        !.st = "open",
                                        !.req = BatchInfoRequest(session[p])]
                                ELSE session[p]]
    /\ UNCHANGED <<peer_names, gossip_tasks, tries_remaining, name_result,
                   health, db, items_left>>
    /\ UNCHANGED conf_vars

RECURSIVE RemoveFirst(_, _)
RemoveFirst(s, x) ==
    IF s = <<>> THEN <<>>
    ELSE IF Head(s) = x THEN Tail(s)
    ELSE <<Head(s)>> \o RemoveFirst(Tail(s), x)

RecordAlwaysSuccess(h, result) == set_success_backoff(h)

\* lines 126-132: the availability update for a finished session
RecordOutcome(h, result) ==
    IF result # Ok THEN set_failure_backoff(h) ELSE set_success_backoff(h)

ReturnOnError(result) == IF result # Ok THEN "returned" ELSE "while"

\* line 134: the end of the loop body, whatever the session's result
AfterReap(result) == "while"

ReapKeepingName(p) ==
    /\ pc = "drain"
    /\ session[p].st = "done"
    /\ LET finished_name == session[p].peer_name
           result == session[p].result
       IN  /\ health' = [health EXCEPT ![finished_name] =
                            RecordOutcome(health[finished_name], result)]
           /\ gossip_tasks' = RemoveFirst(gossip_tasks, finished_name)
           /\ pc' = AfterReap(result)
    /\ session' = [session EXCEPT ![p] = NoSession]
    /\ k' = 0
    /\ UNCHANGED <<peer_names, tries_remaining, name_result, db, items_left>>
    /\ UNCHANGED conf_vars

ReapClearingActive(p) ==
    /\ pc = "drain"
    /\ session[p].st = "done"
    /\ LET finished_name == session[p].peer_name
           result == session[p].result
       IN  /\ health' = [health EXCEPT ![finished_name] =
                            RecordOutcome(health[finished_name], result)]
           /\ peer_names' = {}
           /\ gossip_tasks' = RemoveFirst(gossip_tasks, finished_name)
           /\ pc' = AfterReap(result)
    /\ session' = [session EXCEPT ![p] = NoSession]
    /\ k' = 0
    /\ UNCHANGED <<tries_remaining, name_result, db, items_left>>
    /\ UNCHANGED conf_vars

\* lines 125-134: select_next_some yields a finished task
Reap(p) ==
    /\ pc = "drain"
    /\ session[p].st = "done"
    /\ LET finished_name == session[p].peer_name
           result == session[p].result
       IN  /\ health' = [health EXCEPT ![finished_name] =
                            RecordOutcome(health[finished_name], result)]
           /\ peer_names' = peer_names \ {finished_name}
           /\ gossip_tasks' = RemoveFirst(gossip_tasks, finished_name)
           /\ pc' = AfterReap(result)
    /\ session' = [session EXCEPT ![p] = NoSession]
    /\ k' = 0
    /\ UNCHANGED <<tries_remaining, name_result, db, items_left>>
    /\ UNCHANGED conf_vars

\* ------------------------------------------------ peer_gossip_for_duration
orch_frame == UNCHANGED orch_vars /\ UNCHANGED health /\ UNCHANGED conf_vars

FinishAfterAdvance(s, result) ==
    [s EXCEPT !.st = "done", !.result = result, !.req = None,
              !.expired = FALSE, !.item = None, !.sync = None,
              !.processed = None,
              !.max_seq = IF s.item = None THEN s.max_seq
                          ELSE Some((s.item[1] + 1) % 2^SeqBits)]

\* Err(..)? and the final Ok(()): the task ends, its locals are dropped and
\* spawn returns the result
Finish(s, result) ==
    [s EXCEPT !.st = "done", !.result = result, !.req = None,
              !.expired = FALSE, !.item = None, !.sync = None,
              !.processed = None]

\* lines 207 and 246: handle_batch_stream returns the stream or fails
OpenStream(p, opened) ==
    /\ session[p].st = "open"
    /\ session' = [session EXCEPT ![p] =
                      IF opened
                      THEN [session[p] EXCEPT !.st = "select", !.req = None]
                      ELSE Finish(session[p], NetworkError)]
    /\ UNCHANGED <<db, items_left>>
    /\ orch_frame

\* the sleep of line 200 runs out
Expire(p) ==
    /\ Running(p)
    /\ ~session[p].expired
    /\ session' = [session EXCEPT ![p].expired = TRUE]
    /\ UNCHANGED <<db, items_left>>
    /\ orch_frame

TimeoutAnywhere(p) ==
    /\ Running(p)
    /\ session[p].expired
    /\ session' = [session EXCEPT ![p] = Finish(session[p], Ok)]
    /\ UNCHANGED <<db, items_left>>
    /\ orch_frame

TimeoutBetweenItems(p) ==
    /\ session[p].st = "select"
    /\ session[p].expired
    /\ session[p].processed # None
    /\ session' = [session EXCEPT ![p] = Finish(session[p], Ok)]
    /\ UNCHANGED <<db, items_left>>
    /\ orch_frame

\* lines 211-214 and 252: the timeout branch of the select
Timeout(p) ==
    /\ session[p].st = "select"
    /\ session[p].expired
    /\ session' = [session EXCEPT ![p] = Finish(session[p], Ok)]
    /\ UNCHANGED <<db, items_left>>
    /\ orch_frame

ItemBatchAdvancing(p) ==
    /\ session[p].st = "select"
    /\ session' = [session EXCEPT
                     ![p].max_seq =
                         IF session[p].max_seq = None THEN Some(0)
                         ELSE Some((session[p].max_seq[1] + 1) % 2^SeqBits)]
    /\ UNCHANGED <<db, items_left>>
    /\ orch_frame

\* line 218: a batch item
ItemBatch(p) ==
    /\ session[p].st = "select"
    /\ UNCHANGED session
    /\ UNCHANGED <<db, items_left>>
    /\ orch_frame

\* line 229, seq + 1 on the unsigned sequence number: past the largest value
\* the addition panics (overflow checks on) or wraps (overflow checks off);
\* processed remembers the item the arm of lines 221-231 has just finished
Advanced(s, seq) ==
    IF seq < SeqMax
    THEN {[s EXCEPT !.st = "select", !.max_seq = Some(seq + 1),
                    !.item = None, !.sync = None, !.processed = s.item]}
    ELSE {[s EXCEPT !.st = "select", !.item = None, !.sync = None,
                    !.processed = s.item,
                    !.max_seq = Some((seq + 1) % 2^SeqBits)],
          Finish(s, JoinError)}

InFlightElsewhere(p, digest) ==
    \E q \in Auth \ {p} :
        session[q].item # None /\ session[q].item[2] = digest

ItemTransactionLocked(p, seq, digest, exists) ==
    /\ session[p].st = "select"
    /\ items_left > 0
    /\ items_left' = items_left - 1
    /\ LET s == [session[p] EXCEPT !.item = <<seq, digest>>,
                                   !.response = "unset"]
           known == digest \in db \/ InFlightElsewhere(p, digest)
       IN  CASE exists = "error" ->
                  session' = [session EXCEPT ![p] = Finish(s, StorageError)]
            [] exists = "value" /\ known ->
                  \E t \in Advanced(s, seq) :
                      session' = [session EXCEPT ![p] = t]
            [] exists = "value" /\ ~known ->
                  session' = [session EXCEPT ![p] = [s EXCEPT !.st = "txinfo"]]
    /\ UNCHANGED db
    /\ orch_frame

\* lines 221-222 and 229: a transaction item; the existence check is a
\* synchronous call on the local store, then the request of line 225 is sent
ItemTransaction(p, seq, digest, exists) ==
    /\ session[p].st = "select"
    /\ items_left > 0
    /\ items_left' = items_left - 1
    /\ LET s == [session[p] EXCEPT !.item = <<seq, digest>>,
                                   !.response = "unset"]
       IN  CASE exists = "error" ->
                  session' = [session EXCEPT ![p] = Finish(s, StorageError)]
            [] exists = "value" /\ digest \in db ->
                  \E t \in Advanced(s, seq) :
                      session' = [session EXCEPT ![p] = t]
            [] exists = "value" /\ digest \notin db ->
                  session' = [session EXCEPT ![p] = [s EXCEPT !.st = "txinfo"]]
    /\ UNCHANGED db
    /\ orch_frame

ItemErrorAsBreak(p) ==
    /\ session[p].st = "select"
    /\ session' = [session EXCEPT ![p] = Finish(session[p], Ok)]
    /\ UNCHANGED <<db, items_left>>
    /\ orch_frame

\* lines 234-237: the stream yields an error
ItemError(p) ==
    /\ session[p].st = "select"
    /\ session' = [session EXCEPT ![p] = Finish(session[p], NetworkError)]
    /\ UNCHANGED <<db, items_left>>
    /\ orch_frame

\* lines 240-246: the stream has closed: sleep, build the request from the
\* cursor and call handle_batch_stream again
ItemNone(p) ==
    /\ session[p].st = "select"
    /\ session' = [session EXCEPT ![p] =
                      [session[p] EXCEPT
                          !.st = "open",
                          !.req = BatchInfoRequest(session[p])]]
    /\ UNCHANGED <<db, items_left>>
    /\ orch_frame

\* lines 258-263: the call of sync_authority_source_to_destination with the
\* certificate of the response, its source and its destination
SyncCall(s, response) == <<response, s.peer_name, my_name>>

ProcessResponseTrusting(s, response) ==
    [s EXCEPT !.st = "sync", !.sync = SyncCall(s, response)]

ProcessResponseToPeer(s, response) ==
    IF response = "certificate"
    THEN [s EXCEPT !.st = "sync", !.sync = <<response, my_name, s.peer_name>>]
    ELSE Finish(s, ByzantineAuthoritySuspicion(s.peer_name))

\* lines 255-273: process_response up to its await, or its error
process_response(s, response) ==
    IF response = "certificate"
    THEN [s EXCEPT !.st = "sync", !.sync = SyncCall(s, response)]
    ELSE Finish(s, ByzantineAuthoritySuspicion(s.peer_name))

\* lines 225-226: the transaction info request returns
InfoResponse(p, response) ==
    /\ session[p].st = "txinfo"
    /\ LET s == [session[p] EXCEPT !.response = response]
       IN  session' = [session EXCEPT ![p] =
                          IF response = "error" THEN Finish(s, NetworkError)
                          ELSE process_response(s, response)]
    /\ UNCHANGED <<db, items_left>>
    /\ orch_frame

\* lines 258-265 and 229: sync_authority_source_to_destination returns; on
\* success the certificate is part of the local store
SyncDone(p, synced) ==
    /\ session[p].st = "sync"
    /\ IF synced
       THEN /\ db' = db \cup {session[p].item[2]}
            /\ \E t \in Advanced(session[p], session[p].item[1]) :
                   session' = [session EXCEPT ![p] = t]
       ELSE /\ UNCHANGED db
            /\ session' = [session EXCEPT ![p] = Finish(session[p], SyncError)]
    /\ UNCHANGED items_left
    /\ orch_frame

\* time passes: the no-contact periods run down
Tick ==
    /\ \E a \in Auth : health[a].no_contact > 0
    /\ health' = [a \in Auth |->
                    [health[a] EXCEPT
                        !.no_contact = Max(0, health[a].no_contact - 1)]]
    /\ UNCHANGED orch_vars /\ UNCHANGED sess_vars /\ UNCHANGED conf_vars

\* line 160: the 10 ms of tokio::time::sleep are over and the task of
\* gossip_process is woken
SleepElapsed ==
    /\ pc = "select_sleep"
    /\ pc' = "select"
    /\ UNCHANGED <<k, peer_names, gossip_tasks, tries_remaining, name_result,
                   health>>
    /\ UNCHANGED sess_vars /\ UNCHANGED conf_vars

Orchestrator ==
    \/ Start
    \/ FillTest
    \/ Gate
    \/ \E name \in Auth : SelectDraw(name)
    \/ SelectFailed
    \/ Launch
    \/ AfterFill
    \/ \E p \in Auth : Reap(p)

Session(p) ==
    \/ \E opened \in BOOLEAN : OpenStream(p, opened)
    \/ Expire(p)
    \/ Timeout(p)
    \/ ItemBatch(p)
    \/ \E seq \in Seqs, digest \in Digests, exists \in {"value", "error"} :
          ItemTransaction(p, seq, digest, exists)
    \/ ItemError(p)
    \/ ItemNone(p)
    \/ \E response \in {"certificate", "none", "error"} :
          InfoResponse(p, response)
    \/ \E synced \in BOOLEAN : SyncDone(p, synced)

Next ==
    \/ Orchestrator
    \/ \E p \in Auth : Session(p)
    \/ Tick
    \/ SleepElapsed

Spec == Init /\ [][Next]_vars

\* One peer only (a committee of two, degree 1), any local store, and a
\* longer stream: the session protocol in depth.
SessionInit ==
    /\ voting_rights \in [1..2 -> 1..MaxWeight]
    /\ degree = 1
    /\ pc = "start"
    /\ k = 0
    /\ peer_names = {}
    /\ gossip_tasks = <<>>
    /\ tries_remaining = 0
    /\ name_result = None
    /\ session = [p \in Auth |-> NoSession]
    /\ health = [p \in Auth |-> HealthDefault]
    /\ db \in SUBSET Digests
    /\ items_left = MaxSessionItems

SessionSpec == SessionInit /\ [][Next]_vars

\* The committee of four equal voting rights with degree 3.
FourInit ==
    /\ voting_rights = [a \in 1..4 |-> 1]
    /\ degree = 3
    /\ pc = "start"
    /\ k = 0
    /\ peer_names = {}
    /\ gossip_tasks = <<>>
    /\ tries_remaining = 0
    /\ name_result = None
    /\ session = [p \in Auth |-> NoSession]
    /\ health = [p \in Auth |-> HealthDefault]
    /\ db = {}
    /\ items_left = MaxItems

FourSpec == FourInit /\ [][Next]_vars

\* Two peers of equal voting right with degree 2 and two stream items: two
\* sessions that run side by side.
RaceInit ==
    /\ voting_rights = [a \in 1..3 |-> 1]
    /\ degree = 2
    /\ pc = "start"
    /\ k = 0
    /\ peer_names = {}
    /\ gossip_tasks = <<>>
    /\ tries_remaining = 0
    /\ name_result = None
    /\ session = [p \in Auth |-> NoSession]
    /\ health = [p \in Auth |-> HealthDefault]
    /\ db = {}
    /\ items_left = MaxRaceItems

RaceSpec == RaceInit /\ [][Next]_vars

\* Scheduling: the task of gossip_process runs when it can, timers fire,
\* time passes, Committee::sample draws every authority of positive voting
\* right again and again, and the task pool (FuturesUnordered) does not pass
\* over a finished task for ever.
Fairness ==
    /\ WF_vars(Orchestrator)
    /\ \A p \in Auth : SF_vars(Reap(p))
    /\ WF_vars(SleepElapsed)
    /\ WF_vars(Tick)
    /\ \A name \in Auth : SF_vars(SelectDraw(name))
    /\ \A p \in Auth : WF_vars(Timeout(p))

FairInit ==
    /\ voting_rights = <<1, 1, 2>>
    /\ degree = 2
    /\ pc = "start"
    /\ k = 0
    /\ peer_names = {}
    /\ gossip_tasks = <<>>
    /\ tries_remaining = 0
    /\ name_result = None
    /\ session = [p \in Auth |-> NoSession]
    /\ health = [p \in Auth |-> HealthDefault]
    /\ db = {}
    /\ items_left = MaxItems

FairSpec == FairInit /\ [][Next]_vars /\ Fairness

\* ===================================================================== claims
Launched == Len(gossip_tasks') > Len(gossip_tasks)

\* C1: with a committee of one, or degree 0, gossip_process returns at once:
\* no peer is selected, no session is launched and no availability record is
\* written; the pool never holds more than min(N - 1, degree) tasks.
C1_DisabledGossipDoesNothing ==
    /\ Len(gossip_tasks) <= N - 1
    /\ Len(gossip_tasks) <= degree
    /\ (N = 1 \/ degree = 0) =>
          /\ pc \in {"start", "returned"}
          /\ peer_names = {}
          /\ gossip_tasks = <<>>
          /\ name_result = None
          /\ tries_remaining = 0
          /\ \A p \in Auth : session[p] = NoSession
          /\ \A p \in Auth : health[p] = HealthDefault

C1_Witness == pc = "returned" /\ N = 1 /\ degree > 0

\* C2: a name select_gossip_peer returns is not this authority, not one of
\* the active peers it was given, and was contactable when it was drawn.
C2_SelectedPeerIsEligible ==
    (pc = "select_ret" /\ name_result # SelectError) =>
        /\ name_result[2] \in Members
        /\ name_result[2] # my_name
        /\ name_result[2] \notin peer_names
        /\ can_contact(name_result[2])

C2_Witness ==
    /\ pc = "select_ret"
    /\ name_result # SelectError
    /\ tries_remaining < N
    /\ peer_names # {}

\* C3: a transaction info response without a certificate ends the session
\* with ByzantineAuthoritySuspicion naming its peer; the synchronizer is not
\* called for it (no call is in flight and the local store is unchanged).
C3_MissingCertificateIsByzantine ==
    /\ [](\A p \in Auth :
            session[p].st = "sync" => session[p].response = "certificate")
    /\ [][\A p \in Auth :
            (session[p].st = "txinfo" /\ session'[p].response = "none") =>
                /\ session'[p].st = "done"
                /\ session'[p].result = ByzantineAuthoritySuspicion(p)
                /\ session'[p].peer_name = p
                /\ db' = db]_vars

C3_Witness ==
    \E p \in Auth :
        /\ session[p].st = "done"
        /\ session[p].response = "none"
        /\ session[p].result = ByzantineAuthoritySuspicion(p)

CursorLeq(a, b) ==
    \/ a = None
    \/ a # None /\ b # None /\ a[1] <= b[1]

\* C4: within one session the cursor never decreases from one processed
\* item to the next, whatever items the peer yields.
C4_CursorNeverDecreases ==
    [][\A p \in Auth :
        (session[p].st \notin {"none", "pushed"} /\ session'[p].st # "none")
            => CursorLeq(session[p].max_seq, session'[p].max_seq)]_vars

\* C5: a session whose deadline has elapsed never ends with an error: once
\* the deadline has fired, the only outcome is Ok(()).
C5_ExpiredSessionEndsOk ==
    [][\A p \in Auth :
        (session[p].expired /\ session[p].st # "done"
            /\ session'[p].st = "done") => session'[p].result = Ok]_vars

\* C6 as stated: a session is launched only from a state where the stake of
\* the active peers and this authority is below the quorum threshold.
C6_LaunchOnlyBelowQuorum ==
    [][Launched => total_stake_used(peer_names) < quorum_threshold]_vars

\* C6, amended: the stake is tested after every launch and a stake at or
\* above the quorum threshold ends the fill pass, even below the target
\* number of tasks; so every launch but the first of a pass starts below
\* the threshold.
C6_StakeTestedAfterEachLaunch ==
    [][Launched =>
        /\ k >= 1 => total_stake_used(peer_names) < quorum_threshold
        /\ total_stake_used(peer_names') >= quorum_threshold
              => pc' = "after_fill"
        /\ total_stake_used(peer_names') < quorum_threshold
              => pc' = "while"]_vars

C6_Witness ==
    /\ pc = "after_fill"
    /\ k >= 1
    /\ Len(gossip_tasks) < target_num_tasks
    /\ total_stake_used(peer_names) >= quorum_threshold

\* C7: a completion the orchestrator observes updates the availability of
\* the finished peer exactly once, as a success if and only if the result
\* is Ok, and removes the peer from the active set; nothing else writes a
\* retry count.
C7_OneAvailabilityUpdatePerCompletion ==
    [][/\ (pc = "drain" /\ pc' # "drain") =>
            \E p \in peer_names :
                /\ session[p].st = "done"
                /\ session'[p].st = "none"
                /\ peer_names' = peer_names \ {p}
                /\ \A q \in Auth \ {p} : health'[q] = health[q]
                /\ session[p].result = Ok =>
                       health'[p] = [retries |-> 0, no_contact |-> 0]
                /\ session[p].result # Ok =>
                       /\ health'[p].retries =
                              Min(health[p].retries + 1, MaxRetries)
                       /\ health'[p].no_contact >= 1
       /\ (\E q \in Auth : health'[q].retries # health[q].retries) =>
              (pc = "drain" /\ pc' # "drain")]_vars

C7_Witness ==
    \E p \in Members :
        /\ health[p].retries >= 1
        /\ p \notin peer_names
        /\ pc = "while"
        /\ peer_names # {}

\* C8: after a failed selection with a session in the pool, the orchestrator
\* leaves the fill loop for the drain step before it selects again.
C8_FailedSelectionGoesToDrain ==
    [][(pc = "select_ret" /\ name_result = SelectError
            /\ gossip_tasks # <<>>)
        => pc' \in {"select_ret", "after_fill", "drain"}]_vars

\* C9: with a positive target the loop of gossip_process has no terminal
\* state: it never returns, it waits in the drain step only with a task to
\* wait for, and everywhere but at its waits it has a next step.
C9_LoopNeverEnds ==
    target_num_tasks > 0 =>
        /\ pc \in {"start", "while", "gate", "select", "select_sleep",
                   "select_ret", "after_fill", "drain"}
        /\ pc = "drain" => gossip_tasks # <<>>
        /\ pc \notin {"gate", "select_sleep", "drain"} =>
               ENABLED Orchestrator
        /\ pc = "select_sleep" => ENABLED SleepElapsed

C9_Witness ==
    /\ pc = "select"
    /\ \E p \in Members :
          health[p].retries >= 1 /\ session[p].st = "none"

\* C10: select_gossip_peer draws at most N times; it returns the error
\* exactly when the N-th draw is rejected too, and that error is the result
\* of the call, never the result of a session.
C10_SelectionIsBounded ==
    /\ pc \in {"select", "select_sleep"} => tries_remaining \in 1..N
    /\ pc = "select_ret" =>
          IF name_result = SelectError THEN tries_remaining = 0
          ELSE tries_remaining \in 1..N
    /\ \A p \in Auth : session[p].result # SelectError

C10_Witness ==
    /\ pc = "select_ret"
    /\ name_result = SelectError
    /\ peer_names # {}

\* the step in which session p finishes the arm of a transaction item: at
\* once for a digest the store holds, after the synchronizer for the others
KnownItemFinished(p) ==
    /\ session[p].st = "select"
    /\ session'[p].st = "select"
    /\ session'[p] # session[p]
    /\ items_left' < items_left

FetchedItemFinished(p) ==
    /\ session[p].st = "sync"
    /\ session'[p].st = "select"

\* the info request and the synchronizer call go to the unknown digests only
FetchOnlyUnknown(p) ==
    /\ KnownItemFinished(p) => session'[p].processed[2] \in db
    /\ (session[p].st = "select" /\ session'[p].st = "txinfo") =>
           session'[p].item[2] \notin db
    /\ (session'[p].st = "txinfo" /\ session[p].st # "txinfo") =>
           session[p].st = "select"
    /\ (session'[p].st = "sync" /\ session[p].st # "sync") =>
           session[p].st = "txinfo" /\ session'[p].item = session[p].item
    /\ FetchedItemFinished(p) =>
           /\ session'[p].processed = session[p].item
           /\ session[p].item[2] \notin db
           /\ session[p].item[2] \in db'

\* C11: after a session has finished a transaction item (seq, digest) its
\* cursor is seq + 1, and the info request and the synchronizer call are
\* made for exactly the items whose digest the store did not hold.
C11_CursorIsSeqPlusOne ==
    [][\A p \in Auth :
        /\ FetchOnlyUnknown(p)
        /\ (KnownItemFinished(p) \/ FetchedItemFinished(p)) =>
               session'[p].max_seq = Some(session'[p].processed[1] + 1)]_vars

\* C11 without its largest sequence number: the same statement for every
\* item whose seq + 1 the sequence number type can hold.
C11_CursorIsSeqPlusOneBelowMax ==
    [][\A p \in Auth :
        /\ FetchOnlyUnknown(p)
        /\ ((KnownItemFinished(p) \/ FetchedItemFinished(p))
                /\ session'[p].processed[1] < SeqMax) =>
               session'[p].max_seq = Some(session'[p].processed[1] + 1)]_vars

C11_BelowMaxWitness ==
    \E p \in Auth :
        /\ session[p].st = "select"
        /\ session[p].max_seq = Some(3)
        /\ session[p].processed # None
        /\ session[p].processed[1] = 2
        /\ Cardinality(db) = 2
        /\ items_left = MaxSessionItems - 2

\* C12: a stream that closes without error does not end the session: the
\* session asks for the stream again with start = its cursor (None before
\* the first item is processed) and length 100000, and its deadline, its
\* duration and its cursor are what they were before the stream closed.
C12_ClosedStreamResubscribes ==
    /\ [](\A p \in Auth :
            /\ session[p].st = "open" =>
                   session[p].req = <<session[p].max_seq, 100000>>
            /\ Running(p) =>
                   (session[p].max_seq = None <=> session[p].processed = None))
    /\ [][\A p \in Auth :
            (session[p].st = "select" /\ session'[p].st = "open") =>
                /\ session'[p].req = <<session[p].max_seq, 100000>>
                /\ session'[p].max_seq = session[p].max_seq
                /\ session'[p].expired = session[p].expired
                /\ session'[p].duration = session[p].duration
                /\ session'[p].peer_name = session[p].peer_name
                /\ session'[p].result = None]_vars

C12_Witness ==
    \E p \in Auth :
        /\ session[p].st = "open"
        /\ session[p].req = <<Some(2), 100000>>
        /\ session[p].processed = <<1, 1>>
        /\ session[p].expired

\* C13 as stated: with the committee {A:1, B:1, C:1, D:1}, self = A and
\* degree 3 the fill step does not stop before B, C and D are all active, so
\* the orchestrator waits for a completion only with three active sessions.
C13_FillReachesAllThreePeers ==
    pc \in {"after_fill", "drain"} => peer_names = {2, 3, 4}

\* C13, amended: with that committee the target is 3 and the quorum
\* threshold is 3, but the stake tested is that of the active peers and of
\* this authority: it is 3 after two launches, so every fill pass ends with
\* exactly two active sessions and never are B, C and D active together.
C13_FillStopsAtTwoOfThree ==
    /\ target_num_tasks = 3
    /\ quorum_threshold = 3
    /\ Cardinality(peer_names) <= 2
    /\ Len(gossip_tasks) <= 2
    /\ pc \in {"after_fill", "drain"} =>
           /\ Cardinality(peer_names) = 2
           /\ total_stake_used(peer_names) = 3

C13_Witness ==
    /\ pc = "drain"
    /\ peer_names = {3, 4}
    /\ health[2].retries >= 1
    /\ Len(gossip_tasks) < target_num_tasks

\* C15: an error item of the stream ends the session at once with that
\* error: the cursor stays as it was, no request is left pending, no item is
\* taken and the store is not written in that step, and a session that has
\* ended takes no further step; only the deadline ends a session with Ok.
C15_StreamErrorEndsSession ==
    [][\A p \in Auth :
        /\ (session[p].st = "select" /\ session'[p].st = "done") =>
               /\ session'[p].max_seq = session[p].max_seq
               /\ session'[p].peer_name = session[p].peer_name
               /\ session'[p].result = Ok => session[p].expired
               /\ session'[p].result = NetworkError =>
                      /\ items_left' = items_left
                      /\ db' = db
                      /\ session'[p].req = None
                      /\ session'[p].item = None
                      /\ session'[p].sync = None
        /\ session[p].st = "done" =>
               session'[p] \in {session[p], NoSession}]_vars

C15_Witness ==
    \E p \in Auth :
        /\ session[p].st = "done"
        /\ session[p].result = NetworkError
        /\ session[p].max_seq = Some(2)
        /\ session[p].response = "unset"
        /\ items_left = MaxSessionItems - 1

TaskNames == {gossip_tasks[i] : i \in 1..Len(gossip_tasks)}

\* C16: the active set never has more than min(N - 1, degree) members,
\* never holds this authority, and holds a peer once only: the task pool has
\* one task per active peer, each the session of that peer; at the test of
\* the fill loop the active set is exactly the set of the peers of the tasks
\* in the pool.
C16_ActiveSetMatchesPool ==
    /\ Cardinality(peer_names) <= Min(N - 1, degree)
    /\ my_name \notin peer_names
    /\ peer_names \subseteq Members
    /\ Cardinality(TaskNames) = Len(gossip_tasks)
    /\ \A p \in TaskNames :
           session[p].st # "none" /\ session[p].peer_name = p
    /\ \A p \in Auth : session[p].st # "none" => p \in TaskNames
    /\ pc = "while" => peer_names = TaskNames

C16_Witness ==
    /\ pc = "while"
    /\ Cardinality(peer_names) = 1
    /\ \E p \in Members \ peer_names : health[p].retries >= 1
    /\ target_num_tasks = 2

\* C17: a response with a certificate makes process_response call the
\* synchronizer once, with that certificate, the session's peer as source
\* and this authority as destination; a failure of the synchronizer ends
\* the session with that failure as its result.
C17_CertificateGoesToSynchronizer ==
    /\ [](\A p \in Auth :
            /\ session[p].sync # None <=> session[p].st = "sync"
            /\ session[p].st = "sync" =>
                   /\ session[p].response = "certificate"
                   /\ session[p].peer_name = p
                   /\ session[p].sync = <<"certificate", p, my_name>>)
    /\ [][\A p \in Auth :
            /\ (session[p].sync = None /\ session'[p].sync # None) =>
                   session[p].st = "txinfo"
            /\ (session[p].st = "txinfo"
                    /\ session'[p].response = "certificate") =>
                   session'[p].st = "sync"
            /\ (session[p].st = "sync" /\ session'[p].st # "sync") =>
                   /\ session'[p].st \in {"select", "done"}
                   /\ session'[p].st = "select" => session[p].item[2] \in db'
                   /\ (session'[p].st = "done"
                           /\ session[p].item[2] \notin db') =>
                          session'[p].result = SyncError]_vars

C17_Witness ==
    \E p \in Auth :
        /\ session[p].st = "done"
        /\ session[p].response = "certificate"
        /\ session[p].result = SyncError
        /\ db = {}

\* the step in which the task of session p dies: it has taken an item, or
\* its synchronizer call has succeeded, and it ends without a result of its
\* own (the addition of line 229 has panicked)
TaskDied(p) ==
    /\ session'[p].st = "done"
    /\ \/ /\ session[p].st = "select"
          /\ items_left' < items_left
          /\ session'[p].result # StorageError
       \/ /\ session[p].st = "sync"
          /\ session[p].item[2] \in db'

\* C18: when the task of a session terminates abnormally, spawn returns the
\* name of the peer with the generic error "Gossip Join Error"; the
\* orchestrator then records a failure for that peer, takes it out of the
\* active set and goes on with its loop.
C18_JoinErrorIsRecordedAsFailure ==
    [][\A p \in Auth :
        /\ TaskDied(p) =>
               /\ session'[p].result =
                      <<"GenericAuthorityError", "Gossip Join Error">>
               /\ session'[p].peer_name = p
        /\ (session[p].st = "done" /\ session'[p].st = "none"
                /\ session[p].result =
                       <<"GenericAuthorityError", "Gossip Join Error">>) =>
               /\ health'[p].retries = Min(health[p].retries + 1, MaxRetries)
               /\ health'[p].no_contact >= 1
               /\ p \in peer_names /\ p \notin peer_names'
               /\ pc = "drain" /\ pc' = "while"]_vars

C18_Witness ==
    \E p \in Auth :
        /\ pc = "drain"
        /\ p \in peer_names
        /\ session[p].st = "done"
        /\ session[p].peer_name = p
        /\ session[p].result =
               <<"GenericAuthorityError", "Gossip Join Error">>
        /\ ENABLED Reap(p)

\* C19: the session launched when k sessions have been launched before it
\* in the same fill pass gets the duration 60 + k * 15 seconds; k is 0 when
\* a pass begins, grows by one with every launch and with nothing else: a
\* failed selection leaves it as it is.
C19_DurationStaggeredByK ==
    [][/\ Launched =>
              /\ k' = k + 1
              /\ \E name \in peer_names' \ peer_names :
                     /\ session'[name].st = "pushed"
                     /\ session'[name].duration = 60 + k * 15
       /\ (pc = "select_ret" /\ ~Launched) => k' = k
       /\ (pc = "select_ret" /\ pc' # pc /\ ~Launched) => pc' = "while"
       /\ k' # k => (Launched \/ k' = 0)
       /\ (pc \in {"start", "after_fill", "drain"} /\ pc' = "while") => k' = 0
       /\ \A p \in Auth :
              (session[p].st # "none" /\ session'[p].st # "none") =>
                  session'[p].duration = session[p].duration]_vars

C19_Witness ==
    /\ pc = "after_fill"
    /\ k = 2
    /\ \E p \in peer_names : session[p].duration = 75
    /\ \E q \in peer_names : session[q].duration = 60
    /\ \E r \in Members : health[r].retries >= 1

\* C20: every call of select_gossip_peer comes right after a wait on the
\* quorum gate of its own: the orchestrator enters the selection only from
\* the gate, with the gate open, and after a selection, failed or not, it is
\* back at the test of the fill loop or out of the loop, so the next call
\* passes the gate again.
C20_GateBeforeEverySelection ==
    [][/\ (pc' = "select" /\ pc \notin {"select", "select_sleep"}) =>
              /\ pc = "gate"
              /\ GateOpen
              /\ tries_remaining' = N
       /\ (pc = "gate" /\ pc' # pc) => pc' = "select"
       /\ (pc' = "gate" /\ pc # "gate") => pc = "while"
       /\ (pc = "select" /\ pc' # pc) =>
              pc' \in {"select_sleep", "select_ret"}
       /\ (pc = "select_sleep" /\ pc' # pc) =>
              (pc' = "select" /\ tries_remaining' = tries_remaining)
       /\ (pc = "select_ret" /\ pc' # pc) =>
              pc' \in {"while", "after_fill"}]_vars

C20_Witness ==
    /\ pc = "gate"
    /\ ~GateOpen
    /\ peer_names # {}
    /\ ~ENABLED Orchestrator

\* C21: a selection that fails changes nothing: from the entry of
\* select_gossip_peer to the continue that follows its error, no step of the
\* orchestrator touches the active set, the task pool, k, an availability
\* record or a session.
C21_FailedSelectionChangesNothing ==
    [][(/\ pc' # pc
        /\ \/ pc \in {"select", "select_sleep"}
           \/ pc = "select_ret" /\ name_result = SelectError) =>
           /\ peer_names' = peer_names
           /\ gossip_tasks' = gossip_tasks
           /\ k' = k
           /\ health' = health
           /\ session' = session
           /\ db' = db
           /\ pc = "select_ret" => pc' = "while"]_vars

C21_Witness ==
    /\ pc = "select_ret"
    /\ name_result = SelectError
    /\ k = 1
    /\ Len(gossip_tasks) = 1
    /\ \E p \in Members : health[p].retries >= 1
    /\ ENABLED SelectFailed

\* C22: the end of one session, whatever its result, and its reaping leave
\* every other session as it is: its place in the active set and in the
\* pool, its cursor, its deadline and its availability record; the reaping
\* removes the finished peer only and writes its availability record only.
C22_OtherSessionsUntouched ==
    [][\A p \in Auth :
        /\ (session[p].st # "done" /\ session'[p].st = "done") =>
               /\ \A q \in Auth \ {p} : session'[q] = session[q]
               /\ health' = health
               /\ peer_names' = peer_names
               /\ gossip_tasks' = gossip_tasks
        /\ (session[p].st = "done" /\ session'[p].st = "none") =>
               /\ \A q \in Auth \ {p} :
                      /\ session'[q] = session[q]
                      /\ health'[q] = health[q]
                      /\ q \in peer_names' <=> q \in peer_names
                      /\ q \in TaskNames =>
                             \E i \in 1..Len(gossip_tasks') :
                                 gossip_tasks'[i] = q
               /\ p \notin peer_names']_vars

C22_Witness ==
    \E p, q \in Members :
        /\ p # q
        /\ pc = "while"
        /\ session[p].st = "none"
        /\ health[p].retries >= 1
        /\ peer_names = {q}
        /\ session[q].st = "select"
        /\ session[q].max_seq # None
        /\ session[q].expired

\* C23: nothing but the store decides the existence check: a session skips
\* the fetch of an item only if the store holds its digest, also while
\* another session is fetching or delivering the same digest, and a delivery
\* that has started is made even if the store has got the digest meanwhile.
\* So two sessions can both be delivering one digest (the witness).
C23_NoLockBetweenCheckAndDelivery ==
    [][\A p \in Auth :
        /\ KnownItemFinished(p) => session'[p].processed[2] \in db
        /\ (session[p].st = "select" /\ session'[p].st = "txinfo") =>
               session'[p].item[2] \notin db
        /\ (session[p].st = "txinfo" /\ session'[p].st = "sync") =>
               session'[p].item = session[p].item
        /\ (session[p].st = "sync" /\ session'[p].st = "select") =>
               db' = db \cup {session[p].item[2]}]_vars

C23_Witness ==
    \E p, q \in Auth :
        /\ p # q
        /\ session[p].st = "sync"
        /\ session[q].st = "sync"
        /\ session[p].item[2] = session[q].item[2]
        /\ session[p].item[2] \notin db

\* a session waits in the select of line 210 and its timer has fired
WaitsPastDeadline(p) == session[p].st = "select" /\ session[p].expired

\* the stream hands the session an item, an error or its end
StreamYields(p) ==
    \/ items_left' < items_left
    \/ session'[p].st = "open"
    \/ session'[p].st = "done" /\ session'[p].result = NetworkError

\* C24: the deadline preempts a wait on the stream. A session that waits
\* for the next item after its deadline can take the timeout branch; when
\* the stream yields nothing, the only step it takes ends it with Ok(());
\* and under fair scheduling it does not stay in the wait.
C24_DeadlinePreemptsStreamWait ==
    /\ [](\A p \in Auth : WaitsPastDeadline(p) => ENABLED Timeout(p))
    /\ [][\A p \in Auth :
            /\ (WaitsPastDeadline(p) /\ session'[p] # session[p]
                   /\ ~StreamYields(p))
                 => (session'[p].st = "done" /\ session'[p].result = Ok)
            /\ (session[p].st # "done" /\ session'[p].st = "done"
                   /\ session'[p].result = Ok)
                 => WaitsPastDeadline(p)]_vars
    /\ \A p \in Auth : WaitsPastDeadline(p) ~> ~WaitsPastDeadline(p)

C24_Witness ==
    /\ items_left = MaxItems
    /\ \E p \in Auth :
          /\ session[p].st = "done"
          /\ session[p].result = Ok
          /\ session[p].max_seq = None

\* the pool is short of the target and of the quorum, and a peer with stake
\* that is neither this authority nor active can be contacted
CanLaunchMore ==
    /\ Len(gossip_tasks) < target_num_tasks
    /\ ~UsedAllGoodStake(peer_names)
    /\ \E name \in Sampleable \ (peer_names \cup {my_name}) : can_contact(name)

\* C25: eventual coverage. While the pool is short of the target and of the
\* quorum and some peer can still be taken, nothing but the launch of a new
\* session ends that condition, and under fair sampling and scheduling the
\* pool reaches the target size or the quorum stake.
C25_EventualCoverage ==
    /\ [][(CanLaunchMore /\ ~CanLaunchMore') => Launched]_vars
    /\ CanLaunchMore ~> (\/ Len(gossip_tasks) >= target_num_tasks
                          \/ UsedAllGoodStake(peer_names))

C25_Witness ==
    /\ k = 2
    /\ Len(gossip_tasks) = 2
    /\ ~UsedAllGoodStake({gossip_tasks[1]})
    /\ \E p \in peer_names : health[p].retries > 0

\* the task of gossip_process is suspended: it has not returned and none of
\* its steps can be taken
Suspended == pc # "returned" /\ ~ENABLED Orchestrator

\* a draw of select_gossip_peer is rejected and tries are left
DrawRejectedNotLast ==
    pc = "select" /\ tries_remaining' < tries_remaining /\ tries_remaining' > 0

\* the delay is entered by such a draw and by nothing else, and it is left
\* for the next draw
DelaySteps ==
    /\ DrawRejectedNotLast => pc' = "select_sleep"
    /\ (pc # "select_sleep" /\ pc' = "select_sleep")
          => (pc = "select" /\ tries_remaining' = tries_remaining - 1)
    /\ (pc = "select_sleep" /\ pc' # pc)
          => (pc' = "select" /\ UNCHANGED tries_remaining)

\* C26 as stated: the orchestrator suspends at the gate and at the fan-in
\* wait and nowhere else.
C26_SuspendsOnlyAtGateAndDrain == Suspended => pc \in {"gate", "drain"}

\* C26: the orchestrator suspends at three points and nowhere else: the
\* gate, the fan-in wait, and the fixed delay that select_gossip_peer
\* sleeps after every rejected draw but the last one. During that delay it
\* takes no step until the timer has run out, and then it draws again.
C26_SuspendsAtGateDelayAndDrain ==
    /\ [](Suspended => pc \in {"gate", "select_sleep", "drain"})
    /\ [](pc = "select_sleep"
            => /\ Suspended
               /\ ENABLED SleepElapsed
               /\ tries_remaining \in 1..(N - 1))
    /\ [][DelaySteps]_vars

C26_Witness ==
    /\ pc = "select_sleep"
    /\ Len(gossip_tasks) = 1
    /\ tries_remaining = 1
    /\ GateOpen

\* what a launch and the start of the launched task do to the session of p
FreshSessionSteps(p) ==
    /\ (Launched /\ gossip_tasks'[Len(gossip_tasks')] = p)
          => (session'[p].st = "pushed" /\ session'[p].max_seq = None)
    /\ (session[p].st = "pushed" /\ session'[p].st # "pushed")
          => /\ session'[p].st = "open"
             /\ session'[p].max_seq = None
             /\ session'[p].req = <<None, REQUEST_FOLLOW_NUM_DIGESTS>>

\* C30: every launched session starts with the cursor None and its first
\* stream request starts at None, also when an earlier session with the
\* same peer had advanced its cursor: no cursor is kept between sessions.
C30_SessionStartsWithoutCursor ==
    /\ [](\A p \in Auth :
            session[p].st \in {"none", "pushed"} => session[p].max_seq = None)
    /\ [][\A p \in Auth : FreshSessionSteps(p)]_vars

C30_Witness ==
    /\ N = 2
    /\ db # {}
    /\ items_left = 0
    /\ session[2].st = "open"
    /\ session[2].max_seq = None
    /\ session[2].req = <<None, REQUEST_FOLLOW_NUM_DIGESTS>>

\* a step that leaves session p in the select of line 210 without a
\* transaction item having been read
StaysInSelectWithoutTransaction(p) ==
    /\ session[p].st = "select"
    /\ session'[p].st = "select"
    /\ items_left' = items_left

\* C27: a batch item changes nothing: the step that reads it leaves the
\* session, its cursor and the store as they were and the session in its
\* wait for the next item; a session in that wait can always take one, and
\* no step that keeps it there without a transaction item moves the cursor
\* or starts a check, a request or a synchronizer call.
C27_BatchItemChangesNothing ==
    /\ [](\A p \in Auth : session[p].st = "select" => ENABLED ItemBatch(p))
    /\ [][\A p \in Auth :
            /\ ItemBatch(p) => UNCHANGED <<session, db, items_left>>
            /\ StaysInSelectWithoutTransaction(p)
                 => /\ session'[p] = [session[p] EXCEPT
                                         !.expired = session'[p].expired]
                    /\ db' = db]_vars

C27_Witness ==
    \E p \in Auth :
        /\ session[p].st = "select"
        /\ session[p].max_seq # None
        /\ session[p].max_seq[1] < SeqMax
        /\ session[p].processed # None
        /\ items_left > 0
        /\ ENABLED ItemBatch(p)

\* session p is inside a call it awaits outside the select of line 210: the
\* opening of the stream (first or after the pause of line 241), the
\* transaction info request or the synchronizer
InCall(p) == session[p].st \in {"open", "txinfo", "sync"}

\* the call p awaits can return, with a value or with an error
CallCanReturn(p) ==
    \/ session[p].st = "open"
          /\ ENABLED OpenStream(p, TRUE) /\ ENABLED OpenStream(p, FALSE)
    \/ session[p].st = "txinfo"
          /\ ENABLED InfoResponse(p, "certificate")
          /\ ENABLED InfoResponse(p, "error")
    \/ session[p].st = "sync"
          /\ ENABLED SyncDone(p, TRUE) /\ ENABLED SyncDone(p, FALSE)

\* the step p takes out of a call after its deadline is the return of that
\* call, never the end by timeout
CallRunsToCompletion(p) ==
    (InCall(p) /\ session[p].expired /\ session'[p] # session[p])
        => /\ session'[p].st = "done" => session'[p].result # Ok
           /\ session[p].st = "open" => session'[p].st \in {"select", "done"}
           /\ session[p].st = "txinfo" => session'[p].st \in {"sync", "done"}
           /\ session[p].st = "sync" => session'[p].st \in {"select", "done"}

NotBegun(p) ==
    session[p].st = "pushed"
        => /\ session[p].req = None
           /\ ~session[p].expired
           /\ session[p].item = None
           /\ session[p].result = None

\* the step in which gossip_process reaches line 125 and polls the pool
PollStep == pc = "after_fill" /\ pc' = "drain"

\* a launch leaves the new session unstarted, and a session starts in a
\* poll of the pool and in no other step
StartsOnlyWhenPolled ==
    /\ Launched => session'[gossip_tasks'[Len(gossip_tasks')]].st = "pushed"
    /\ \A p \in Auth :
          (session[p].st = "pushed" /\ session'[p].st # "pushed")
              => (PollStep /\ session'[p].st = "open")

\* C31 as stated: a session does not begin before the orchestrator reaches
\* the drain wait and polls the pool, and at that drain wait every session
\* added in the fill pass starts.
C31_PassStartsTogetherAtItsDrain ==
    /\ [](\A p \in Auth : NotBegun(p))
    /\ [][/\ StartsOnlyWhenPolled
           /\ PollStep => \A p \in Auth : session'[p].st # "pushed"]_vars

\* the poll finds no finished task and gets to every unstarted session
PollStartsAllUnlessOneFinished ==
    (PollStep /\ Finished = {}) => \A p \in Auth : session'[p].st # "pushed"

\* C31: a session added to the pool does not begin (no timer, no stream)
\* before the orchestrator polls the pool at the drain wait, so none makes
\* progress while the orchestrator is in the fill loop. A poll that finds no
\* finished session starts every session added since; a poll that returns
\* a finished session may leave sessions of this pass unstarted, and they
\* start at a later drain wait.
C31_SessionsStartWhenPolled ==
    /\ [](\A p \in Auth : NotBegun(p))
    /\ []((pc = "drain" /\ Unstarted # {}) => Finished # {})
    /\ [][StartsOnlyWhenPolled /\ PollStartsAllUnlessOneFinished]_vars

C31_Witness ==
    /\ pc = "gate"
    /\ k = 0
    /\ Unstarted # {}
    /\ Unstarted = peer_names
    /\ \E q \in Members : health[q].retries > 0

\* session p ends in this step with the given error and with the cursor it
\* had before the step
EndsWith(p, err) ==
    /\ session'[p].st = "done"
    /\ session'[p].result = err
    /\ session'[p].max_seq = session[p].max_seq

\* the failures of the calls made for a transaction item
ItemFailures(p) ==
    /\ (\E seq \in Seqs, digest \in Digests :
            ItemTransaction(p, seq, digest, "error"))
          => EndsWith(p, StorageError)
    /\ InfoResponse(p, "error") => EndsWith(p, NetworkError)
    /\ InfoResponse(p, "none")
          => EndsWith(p, ByzantineAuthoritySuspicion(session[p].peer_name))
    /\ SyncDone(p, FALSE) => EndsWith(p, SyncError)

\* the failure of handle_batch_stream, first call or later one
OpenFailure(p) == OpenStream(p, FALSE) => EndsWith(p, NetworkError)

\* from the item read to the end of its handling the cursor is the one the
\* session had before the item
CursorWaitsForItem(p) ==
    (session[p].st \in {"txinfo", "sync"} /\ session'[p].st # "select")
        => session'[p].max_seq = session[p].max_seq

\* C32: when the existence check, the transaction info request or
\* process_response fails for an item (seq, digest), the session ends with
\* that error and its cursor is the one it had before the item, not
\* seq + 1; a stream that cannot be opened, at the start or after a close,
\* ends the session with that error as well.
C32_FailedItemLeavesCursor ==
    /\ [](\A p \in Auth :
            session[p].st = "open" => ENABLED OpenStream(p, FALSE))
    /\ [](\A p \in Auth :
            session[p].st = "txinfo"
                => (ENABLED InfoResponse(p, "error")
                      /\ ENABLED InfoResponse(p, "none")))
    /\ [][\A p \in Auth :
            ItemFailures(p) /\ OpenFailure(p) /\ CursorWaitsForItem(p)]_vars

C32_Witness ==
    \E p \in Auth :
        /\ session[p].st = "done"
        /\ session[p].result = ByzantineAuthoritySuspicion(p)
        /\ session[p].max_seq # None
        /\ session[p].response = "none"

\* C28: under fair scheduling a session that has ended is reaped in the
\* end: the orchestrator leaves the fill loop, also after selections that
\* failed, takes the finished task out of the pool and its peer out of the
\* active set.
C28_EndedSessionIsReaped ==
    \A p \in Auth :
        (session[p].st = "done" /\ p \in peer_names)
            ~> (session[p].st = "none" /\ p \notin peer_names)

C28_Witness ==
    /\ pc = "select_ret"
    /\ name_result = SelectError
    /\ \E p \in peer_names : session[p].st = "done"
    /\ \E q \in Members : health[q].no_contact > 0
====
